---- MODULE Spec2Model ----
(***************************************************************************)
(* A model of src/utils.py of the LODLs repository: the disk-backed        *)
(* problem cache (lock, init_if_not_saved, find_saved_problem), the        *)
(* stdout capture (Capturing, capture), the metrics reporter               *)
(* (print_metrics) and the tensor helper gather_incomplete_left.           *)
(***************************************************************************)
EXTENDS Integers, Sequences, FiniteSets, TLC

(***************************************************************************)
(* Bounds of the model.                                                     *)
(***************************************************************************)
\* number of processes calling init_if_not_saved
NumProcs == 2
\* rows the index may grow to (Construct is disabled beyond it), for one
\* caller after the other and for concurrent callers
MaxRows == 3
MaxLockRows == 2
\* Capturing scopes open at once, scopes entered and print calls in a run
MaxDepth == 2
MaxScopes == 2
MaxPrints == 2
\* samples of a dataset partition
MaxLen == 2
\* size of each tensor dimension
MaxDim == 3

Procs == 1..NumProcs

(***************************************************************************)
(* Values.  A Python value held in kwargs or in a DataFrame cell, and a    *)
(* token of the CSV text, are records of one shape.  A number is kept as   *)
(* the number: to_csv writes it as "n" (int64 column) or "n.0" (float64    *)
(* column) and read_csv parses both to the same number.  Strings of the    *)
(* input domain are non-numeric text.                                       *)
(***************************************************************************)
Val(ty, n, s) == [ty |-> ty, n |-> n, s |-> s]

\* Python values
Num(n)    == Val("num", n, "")
Str(s)    == Val("str", 0, s)
\* the str holding the digits of n: what read_csv yields for a numeric
\* token in a column that also holds non-numeric text (object dtype)
NumStr(n) == Val("numstr", n, "")
PyNone    == Val("none", 0, "")
NaN       == Val("nan", 0, "")
\* marks a key that is not in a dict
Absent    == Val("absent", 0, "")

\* CSV tokens
NumLit(n) == Val("numlit", n, "")
Text(s)   == Val("text", 0, s)
Empty     == Val("empty", 0, "")

\* the kwargs keys and the values the callers pass for each
Keys == {"x", "y"}
KeyOrder == <<"x", "y">>
ValuesOf(k) == IF k = "x" THEN {Num(1), Num(2), Str("a"), PyNone}
                          ELSE {Num(1)}
KwargsSet == {kw \in [Keys -> UNION {ValuesOf(k) : k \in Keys} \cup {Absent}] :
                \A k \in Keys : kw[k] = Absent \/ kw[k] \in ValuesOf(k)}
KeysOf(kw) == {k \in Keys : kw[k] # Absent}
\* the kwargs of the concurrent callers: numbers only
LockKwargs == {kw \in KwargsSet : kw["x"] = Num(1) \/ kw = [x |-> Num(2), y |-> Absent]}

\* filename = None (line 107); a file models/<Cls>_<N>.pkl is named by N
NoFile == -1
\* no process holds the flock on .lock
NoProc == 0
\* a name bound to no problem instance yet
NoProblem == [args |-> [k \in Keys |-> Absent], id |-> NoFile]

VARIABLES
  \* ---- problem index and cache (files on disk)
  index,        \* <folder>/<Cls>.csv: [exists, columns, rows of tokens]
  files,        \* <folder>/<Cls>_<N>.pkl: N -> pickled instance
  flockOwner,   \* holder of the exclusive flock on .lock
  \* ---- per process, the frame of wrap/init_if_not_saved
  pc, kwargs, load_new, filename, saved_probs, problem,
  built,        \* instances constructed so far (identity of an instance)
  origin        \* ghost: per file N, what the lookup of its call found

cacheVars == <<index, files, flockOwner, pc, kwargs, load_new, filename,
               saved_probs, problem, built, origin>>

VARIABLES
  \* ---- Capturing / capture
  sys_stdout,   \* the stream sys.stdout names: 0 the process's own, k a StringIO
  streams,      \* the characters written to each stream
  scopes,       \* the Capturing objects whose with block is open, innermost last
  exc,          \* an exception is propagating
  output,       \* the Capturing list of the scope left last
  pending,      \* capture's _fn is between its with block and line 37
  logOpt,       \* os.environ.get("LOG_OPT_STDOUT")
  entered, prints   \* scopes entered and print calls so far

capVars == <<sys_stdout, streams, scopes, exc, output, pending, logOpt,
             entered, prints>>

VARIABLES
  \* ---- print_metrics
  metPc,        \* "loop" in the loop of line 123, "raised", "returned"
  metrics,      \* the dict of line 122
  iter          \* the loop's variables after its last turn

metVars == <<metPc, metrics, iter>>

VARIABLES
  \* ---- gather_incomplete_left
  tensor, I, gathered

tenVars == <<tensor, I, gathered>>

vars == <<cacheVars, capVars, metVars, tenVars>>

(***************************************************************************)
(* pandas: DataFrame, read_csv, to_csv, concat, boolean filter.            *)
(***************************************************************************)
\* pd.DataFrame(columns=('filename', *kwargs.keys())): no rows
EmptyFrame(kw) == [columns |-> KeysOf(kw), rows |-> <<>>]

\* the index file before it is first written
NoIndex == [exists |-> FALSE, columns |-> {}, rows |-> <<>>]

\* read_csv infers a column numeric when every cell is a number or empty
ColNumeric(f, c) ==
  \A i \in 1..Len(f.rows) : f.rows[i].cells[c].ty \in {"numlit", "empty"}

\* one cell of a column, numeric or not
ParseCell(numeric, tok) ==
  CASE tok.ty = "empty"  -> NaN
    [] tok.ty = "numlit" -> IF numeric THEN Num(tok.n) ELSE NumStr(tok.n)
    [] OTHER             -> Str(tok.s)

\* pd.read_csv(file)
ReadCsv(f) ==
  [columns |-> f.columns,
   rows |-> [i \in 1..Len(f.rows) |->
              [filename |-> f.rows[i].filename,
               cells |-> [c \in Keys |->
                  IF c \in f.columns
                    THEN ParseCell(ColNumeric(f, c), f.rows[i].cells[c])
                    ELSE NaN]]]]

\* how to_csv writes one cell
FormatCell(v) ==
  CASE v.ty \in {"num", "numstr"} -> NumLit(v.n)
    [] v.ty = "str"               -> Text(v.s)
    [] OTHER                      -> Empty

\* saved_probs.to_csv(file, index=False)
ToCsv(df) ==
  [exists |-> TRUE,
   columns |-> df.columns,
   rows |-> [i \in 1..Len(df.rows) |->
              [filename |-> df.rows[i].filename,
               cells |-> [c \in Keys |->
                  IF c \in df.columns THEN FormatCell(df.rows[i].cells[c])
                                      ELSE Empty]]]]

\* pd.DataFrame.from_dict([kwargs]) with kwargs['filename'] = fname
NewRow(kw, fname) ==
  [filename |-> fname,
   cells |-> [c \in Keys |-> IF kw[c] = Absent THEN NaN ELSE kw[c]]]

ConcatReplaces(df, kw, fname) ==
  [columns |-> KeysOf(kw), rows |-> <<NewRow(kw, fname)>>]

\* pd.concat([saved_probs, pd.DataFrame.from_dict([kwargs])]): the columns
\* are unioned, a cell of a column a frame lacks is NaN
Concat(df, kw, fname) ==
  [columns |-> df.columns \cup KeysOf(kw),
   rows |-> Append(df.rows, NewRow(kw, fname))]

\* relevant_models[col] == val, for one cell
EqCell(cell, val) ==
  CASE val.ty = "num" -> cell.ty = "num" /\ cell.n = val.n
    [] val.ty = "str" -> cell.ty = "str" /\ cell.s = val.s
    [] OTHER          -> FALSE

FilterStepAllKeys(df, rel, col, val) ==
  SelectSeq(rel, LAMBDA r : col \in df.columns /\ EqCell(r.cells[col], val))

\* one turn of the loop of lines 102-104
FilterStep(df, rel, col, val) ==
  IF col \in df.columns
    THEN SelectSeq(rel, LAMBDA r : EqCell(r.cells[col], val))
    ELSE rel

\* the loop over kwargs.items(), from the i-th key on
RECURSIVE FilterFrom(_, _, _, _)
FilterFrom(df, rel, kw, i) ==
  IF i > Len(KeyOrder) THEN rel
  ELSE LET col == KeyOrder[i]
       IN IF kw[col] = Absent
            THEN FilterFrom(df, rel, kw, i + 1)
            ELSE FilterFrom(df, FilterStep(df, rel, col, kw[col]), kw, i + 1)

RelevantModels(df, kw) == FilterFrom(df, df.rows, kw, 1)

FirstFilenameLast(rel) ==
  IF rel = <<>> THEN NoFile ELSE rel[Len(rel)].filename

\* lines 107-109
FirstFilename(rel) ==
  IF rel = <<>> THEN NoFile ELSE rel[1].filename

\* find_saved_problem(master_filename, kwargs): <<filename, saved_probs>>
FindSavedProblem(f, kw) ==
  LET df == IF f.exists THEN ReadCsv(f) ELSE EmptyFrame(kw)
  IN <<FirstFilename(RelevantModels(df, kw)), df>>

NewFilenameFixed(df) == 0

\* line 77: the new file is numbered by the row count
NewFilename(df) == Len(df.rows)

(***************************************************************************)
(* lock: flock on the open file .lock                                      *)
(***************************************************************************)
FlockGrantedAlways(owner) == TRUE

\* flock(LOCK_EX) returns once no other open file holds the lock
FlockGranted(owner) == owner = NoProc

\* flock(LOCK_UN) by p
FlockUnlock(owner, p) == IF owner = p THEN NoProc ELSE owner

CloseFileKeepsLock(owner, p) == owner

\* closing p's file on leaving the with block drops a lock it still holds
CloseFile(owner, p) == IF owner = p THEN NoProc ELSE owner

(***************************************************************************)
(* init_if_not_saved under @lock, one action per file operation            *)
(***************************************************************************)
CacheInit ==
  /\ index = NoIndex
  /\ files = [n \in {} |-> NoProblem]
  /\ flockOwner = NoProc
  /\ pc = [p \in Procs |-> "idle"]
  /\ kwargs = [p \in Procs |-> [kw |-> [k \in Keys |-> Absent], filename |-> NoFile]]
  /\ load_new = [p \in Procs |-> TRUE]
  /\ filename = [p \in Procs |-> NoFile]
  /\ saved_probs = [p \in Procs |-> [columns |-> {}, rows |-> <<>>]]
  /\ problem = [p \in Procs |-> NoProblem]
  /\ built = 0
  /\ origin = [n \in {} |-> [found |-> NoFile, widened |-> FALSE]]

\* wrap(*args): line 46, open(".lock", "a")
Call(p, kw, ln) ==
  /\ pc[p] = "idle"
  /\ pc' = [pc EXCEPT ![p] = "flock"]
  /\ kwargs' = [kwargs EXCEPT ![p] = [kw |-> kw, filename |-> NoFile]]
  /\ load_new' = [load_new EXCEPT ![p] = ln]
  /\ UNCHANGED <<index, files, flockOwner, filename, saved_probs, problem,
                 built, origin>>
  /\ UNCHANGED <<capVars, metVars, tenVars>>

\* line 47
Flock(p) ==
  /\ pc[p] = "flock"
  /\ FlockGranted(flockOwner)
  /\ flockOwner' = p
  /\ pc' = [pc EXCEPT ![p] = "find"]
  /\ UNCHANGED <<index, files, kwargs, load_new, filename, saved_probs,
                 problem, built, origin>>
  /\ UNCHANGED <<capVars, metVars, tenVars>>

\* lines 62-65
Find(p) ==
  /\ pc[p] = "find"
  /\ LET r == FindSavedProblem(index, kwargs[p].kw)
     IN /\ filename' = [filename EXCEPT ![p] = r[1]]
        /\ saved_probs' = [saved_probs EXCEPT ![p] = r[2]]
  /\ pc' = [pc EXCEPT ![p] = "branch"]
  /\ UNCHANGED <<index, files, flockOwner, kwargs, load_new, problem,
                 built, origin>>
  /\ UNCHANGED <<capVars, metVars, tenVars>>

\* lines 67-70: the saved instance is unpickled
LoadPickle(p) ==
  /\ pc[p] = "branch"
  /\ ~load_new[p] /\ filename[p] # NoFile
  /\ filename[p] \in DOMAIN files
  /\ problem' = [problem EXCEPT ![p] = files[filename[p]]]
  /\ pc' = [pc EXCEPT ![p] = "unlock"]
  /\ UNCHANGED <<index, files, flockOwner, kwargs, load_new, filename,
                 saved_probs, built, origin>>
  /\ UNCHANGED <<capVars, metVars, tenVars>>

\* lines 69-70: open or pickle.load raises
LoadPickleRaises(p) ==
  /\ pc[p] = "branch"
  /\ ~load_new[p] /\ filename[p] # NoFile
  /\ pc' = [pc EXCEPT ![p] = "raise"]
  /\ UNCHANGED <<index, files, flockOwner, kwargs, load_new, filename,
                 saved_probs, problem, built, origin>>
  /\ UNCHANGED <<capVars, metVars, tenVars>>

\* line 73: problem_cls(**kwargs)
Construct(p, maxRows) ==
  /\ pc[p] = "branch"
  /\ load_new[p] \/ filename[p] = NoFile
  /\ Len(saved_probs[p].rows) < maxRows
  /\ problem' = [problem EXCEPT ![p] = [args |-> kwargs[p].kw, id |-> built]]
  /\ built' = built + 1
  /\ pc' = [pc EXCEPT ![p] = "dump"]
  /\ UNCHANGED <<index, files, flockOwner, kwargs, load_new, filename,
                 saved_probs, origin>>
  /\ UNCHANGED <<capVars, metVars, tenVars>>

\* line 73: the constructor raises
ConstructRaises(p) ==
  /\ pc[p] = "branch"
  /\ load_new[p] \/ filename[p] = NoFile
  /\ pc' = [pc EXCEPT ![p] = "raise"]
  /\ UNCHANGED <<index, files, flockOwner, kwargs, load_new, filename,
                 saved_probs, problem, built, origin>>
  /\ UNCHANGED <<capVars, metVars, tenVars>>

\* lines 77-79: the instance is pickled to the new file
Dump(p) ==
  /\ pc[p] = "dump"
  /\ LET n == NewFilename(saved_probs[p])
     IN /\ filename' = [filename EXCEPT ![p] = n]
        /\ files' = [m \in DOMAIN files \cup {n} |->
                       IF m = n THEN problem[p] ELSE files[m]]
        /\ origin' = [m \in DOMAIN origin \cup {n} |->
                       IF m = n
                         THEN [found |-> filename[p],
                               widened |-> ~(KeysOf(kwargs[p].kw)
                                              \subseteq saved_probs[p].columns)]
                         ELSE origin[m]]
  /\ pc' = [pc EXCEPT ![p] = "write"]
  /\ UNCHANGED <<index, flockOwner, kwargs, load_new, saved_probs, problem,
                 built>>
  /\ UNCHANGED <<capVars, metVars, tenVars>>

\* lines 82-85: the row is appended and the whole index rewritten
WriteIndex(p) ==
  /\ pc[p] = "write"
  /\ kwargs' = [kwargs EXCEPT ![p].filename = filename[p]]
  /\ LET df == Concat(saved_probs[p], kwargs[p].kw, filename[p])
     IN /\ saved_probs' = [saved_probs EXCEPT ![p] = df]
        /\ index' = ToCsv(df)
  /\ pc' = [pc EXCEPT ![p] = "unlock"]
  /\ UNCHANGED <<files, flockOwner, load_new, filename, problem, built,
                 origin>>
  /\ UNCHANGED <<capVars, metVars, tenVars>>

\* line 50: fn returned, the lock is released
Unlock(p) ==
  /\ pc[p] = "unlock"
  /\ flockOwner' = FlockUnlock(flockOwner, p)
  /\ pc' = [pc EXCEPT ![p] = "close"]
  /\ UNCHANGED <<index, files, kwargs, load_new, filename, saved_probs,
                 problem, built, origin>>
  /\ UNCHANGED <<capVars, metVars, tenVars>>

\* the frame of a finished call is dropped
Reset(p) ==
  /\ pc' = [pc EXCEPT ![p] = "idle"]
  /\ kwargs' = [kwargs EXCEPT ![p] = [kw |-> [k \in Keys |-> Absent],
                                      filename |-> NoFile]]
  /\ load_new' = [load_new EXCEPT ![p] = TRUE]
  /\ filename' = [filename EXCEPT ![p] = NoFile]
  /\ saved_probs' = [saved_probs EXCEPT ![p] = [columns |-> {}, rows |-> <<>>]]
  /\ problem' = [problem EXCEPT ![p] = NoProblem]

\* lines 46, 51: the with block is left, the file closed, res returned
Return(p) ==
  /\ pc[p] = "close"
  /\ flockOwner' = CloseFile(flockOwner, p)
  /\ Reset(p)
  /\ UNCHANGED <<index, files, built, origin>>
  /\ UNCHANGED <<capVars, metVars, tenVars>>

\* line 46: fn raised; the with block closes the file and the exception
\* goes on to the caller (line 50 is skipped)
Propagate(p) ==
  /\ pc[p] = "raise"
  /\ flockOwner' = CloseFile(flockOwner, p)
  /\ Reset(p)
  /\ UNCHANGED <<index, files, built, origin>>
  /\ UNCHANGED <<capVars, metVars, tenVars>>

CacheNext(P, K, maxRows) ==
  \E p \in P :
    \/ \E kw \in K, ln \in BOOLEAN : Call(p, kw, ln)
    \/ Flock(p)
    \/ Find(p)
    \/ LoadPickle(p)
    \/ LoadPickleRaises(p)
    \/ Construct(p, maxRows)
    \/ ConstructRaises(p)
    \/ Dump(p)
    \/ WriteIndex(p)
    \/ Unlock(p)
    \/ Return(p)
    \/ Propagate(p)

(***************************************************************************)
(* Capturing and capture (lines 14-41).  Text is a sequence of characters; *)
(* print(t) writes t and a newline to the stream sys.stdout names.         *)
(***************************************************************************)
NL == "\n"
PrintTexts == {<<>>, <<"a">>, <<"b", "c">>}

\* str.splitlines() of buf, scanned from the i-th character
RECURSIVE SplitFrom(_, _, _, _)
SplitFrom(buf, i, cur, acc) ==
  IF i > Len(buf) THEN (IF cur = <<>> THEN acc ELSE Append(acc, cur))
  ELSE IF buf[i] = NL THEN SplitFrom(buf, i + 1, <<>>, Append(acc, cur))
  ELSE SplitFrom(buf, i + 1, Append(cur, buf[i]), acc)

SplitLines(buf) == SplitFrom(buf, 1, <<>>, <<>>)

\* repr of a list of str, as print(output) writes it
RECURSIVE ReprFrom(_, _)
ReprFrom(lines, i) ==
  IF i > Len(lines) THEN <<"]">>
  ELSE (IF i > 1 THEN <<",">> ELSE <<>>) \o <<"'">> \o lines[i] \o <<"'">>
         \o ReprFrom(lines, i + 1)

Repr(lines) == <<"[">> \o ReprFrom(lines, 1)

\* print(t, file=sys.stdout)
PrintTo(strm, out, t) == [strm EXCEPT ![out] = @ \o t \o <<NL>>]

\* the text goes to the scope whose StringIO is installed (ghost)
NoteWritten(sc, t) ==
  IF sc = <<>> THEN sc
  ELSE [sc EXCEPT ![Len(sc)].written = Append(@, t)]

\* line 26: self.extend(self._stringio.getvalue().splitlines())
ExitList(c, strm) == c.list \o SplitLines(strm[c._stringio])

ExitStdoutKeeps(c, cur, raised) == IF raised THEN cur ELSE c._stdout

\* line 28: sys.stdout = self._stdout, on every way out of the with block
ExitStdout(c, cur, raised) == c._stdout

CapIdle ==
  /\ sys_stdout = 0
  /\ streams = [i \in 0..MaxDepth |-> <<>>]
  /\ scopes = <<>>
  /\ exc = FALSE
  /\ output = <<>>
  /\ pending = FALSE
  /\ logOpt = FALSE
  /\ entered = 0
  /\ prints = 0

CapInit ==
  /\ sys_stdout = 0
  /\ streams = [i \in 0..MaxDepth |-> <<>>]
  /\ scopes = <<>>
  /\ exc = FALSE
  /\ output = <<>>
  /\ pending = FALSE
  /\ logOpt \in BOOLEAN
  /\ entered = 0
  /\ prints = 0

\* lines 20-23: with Capturing() as output (wrapper: inside capture's _fn,
\* line 35); reuse: with the Capturing object that was left last
Enter(wrapper, reuse) ==
  /\ ~exc /\ ~pending
  /\ Len(scopes) < MaxDepth /\ entered < MaxScopes
  /\ ~(wrapper /\ reuse)
  /\ LET id == Len(scopes) + 1
     IN /\ scopes' = Append(scopes,
                       [_stdout |-> sys_stdout, _stringio |-> id,
                        list |-> IF reuse THEN output ELSE <<>>,
                        wrapper |-> wrapper,
                        installed |-> sys_stdout, written |-> <<>>])
        /\ streams' = [streams EXCEPT ![id] = <<>>]
        /\ sys_stdout' = id
  /\ entered' = entered + 1
  /\ UNCHANGED <<exc, output, pending, logOpt, prints>>
  /\ UNCHANGED <<cacheVars, metVars, tenVars>>

\* the code running in the innermost open scope (or in none) prints a line
PrintLine(t) ==
  /\ ~exc /\ ~pending
  /\ prints < MaxPrints
  /\ streams' = PrintTo(streams, sys_stdout, t)
  /\ scopes' = NoteWritten(scopes, t)
  /\ prints' = prints + 1
  /\ UNCHANGED <<sys_stdout, exc, output, pending, logOpt, entered>>
  /\ UNCHANGED <<cacheVars, metVars, tenVars>>

\* the body of the innermost with block raises
BodyRaises ==
  /\ ~exc /\ ~pending
  /\ scopes # <<>>
  /\ exc' = TRUE
  /\ UNCHANGED <<sys_stdout, streams, scopes, output, pending, logOpt,
                 entered, prints>>
  /\ UNCHANGED <<cacheVars, metVars, tenVars>>

\* lines 25-28: __exit__ of the innermost scope; it returns None, so an
\* exception goes on, and capture's lines 37-39 run only without one
Exit ==
  /\ ~pending
  /\ scopes # <<>>
  /\ LET c == scopes[Len(scopes)]
     IN /\ output' = ExitList(c, streams)
        /\ streams' = [streams EXCEPT ![c._stringio] = <<>>]
        /\ sys_stdout' = ExitStdout(c, sys_stdout, exc)
        /\ pending' = (c.wrapper /\ ~exc)
  /\ scopes' = SubSeq(scopes, 1, Len(scopes) - 1)
  /\ UNCHANGED <<exc, logOpt, entered, prints>>
  /\ UNCHANGED <<cacheVars, metVars, tenVars>>

\* lines 37-39 of capture
LogOutput ==
  /\ pending
  /\ pending' = FALSE
  /\ IF logOpt
       THEN /\ streams' = PrintTo(streams, sys_stdout, Repr(output))
            /\ scopes' = NoteWritten(scopes, Repr(output))
       ELSE UNCHANGED <<streams, scopes>>
  /\ UNCHANGED <<sys_stdout, exc, output, logOpt, entered, prints>>
  /\ UNCHANGED <<cacheVars, metVars, tenVars>>

\* an except clause around the with block, at any level, takes the exception
Catch ==
  /\ exc
  /\ exc' = FALSE
  /\ UNCHANGED <<sys_stdout, streams, scopes, output, pending, logOpt,
                 entered, prints>>
  /\ UNCHANGED <<cacheVars, metVars, tenVars>>

CapNext ==
  \/ \E w, r \in BOOLEAN : Enter(w, r)
  \/ \E t \in PrintTexts : PrintLine(t)
  \/ BodyRaises
  \/ Exit
  \/ LogOutput
  \/ Catch

(***************************************************************************)
(* print_metrics (lines 113-151).  A mean is kept as sum and count; the    *)
(* mean of an empty tensor is nan.                                          *)
(***************************************************************************)
\* line 134 tells test from every other name; train stands for those
Partitions == {"train", "test"}
ObjValues == {-1, 1}
LossValues == {0, 1}
VectorsOf(S) == UNION {[1..n -> S] : n \in 0..MaxLen}

RECURSIVE SumSeq(_)
SumSeq(v) == IF v = <<>> THEN 0 ELSE Head(v) + SumSeq(Tail(v))

Abs(x) == IF x < 0 THEN -x ELSE x

\* tensor.mean()
Mean(v) == [nan |-> Len(v) = 0, num |-> SumSeq(v), den |-> Len(v)]

\* torch.nn.L1Loss()(a, b)
L1Loss(a, b) == Mean([i \in 1..Len(a) |-> Abs(a[i] - b[i])])

\* -objectives
Neg(v) == [i \in 1..Len(v) |-> -v[i]]

\* torch.zeros_like(objectives)
ZerosLike(v) == [i \in 1..Len(v) |-> 0]

\* what loss_fn returns on the samples of a partition (it is not asked on
\* test, where one value stands for all)
LossOutputs(partition, o) ==
  IF partition = "test" THEN {[i \in 1..Len(o) |-> 1]}
                        ELSE [1..Len(o) -> LossValues]

UsesLossFnAlways(partition) == TRUE

\* line 134
UsesLossFn(partition) == partition # "test"

NoMetric == [set |-> FALSE, objective |-> Mean(<<>>), loss |-> Mean(<<>>),
             mae |-> Mean(<<>>)]
NoIter == [partition |-> "", objectives |-> <<>>, losses |-> <<>>,
           lossCalls |-> 0]

MetIdle ==
  /\ metPc = "returned"
  /\ metrics = [pt \in Partitions |-> NoMetric]
  /\ iter = NoIter

\* print_metrics is called: line 122
MetCall ==
  /\ metPc # "loop"
  /\ metPc' = "loop"
  /\ metrics' = [pt \in Partitions |-> NoMetric]
  /\ iter' = NoIter
  /\ UNCHANGED <<cacheVars, capVars, tenVars>>

\* one turn of the loop (lines 123-149) on a partition of Len(objectives)
\* samples; lossOut is what loss_fn returns for each sample
MetIter(partition, objectives, lossOut) ==
  /\ metPc = "loop"
  /\ Len(lossOut) = Len(objectives)
  /\ IF UsesLossFn(partition) /\ objectives = <<>>
       THEN \* torch.stack([]) raises
            /\ metPc' = "raised"
            /\ iter' = [partition |-> partition, objectives |-> objectives,
                        losses |-> <<>>, lossCalls |-> 0]
            /\ UNCHANGED metrics
       ELSE LET losses == IF UsesLossFn(partition) THEN lossOut
                                                   ELSE ZerosLike(objectives)
            IN /\ metrics' = [metrics EXCEPT ![partition] =
                                [set |-> TRUE,
                                 objective |-> Mean(objectives),
                                 loss |-> Mean(losses),
                                 mae |-> L1Loss(losses, Neg(objectives))]]
               /\ iter' = [partition |-> partition, objectives |-> objectives,
                           losses |-> losses,
                           lossCalls |-> IF UsesLossFn(partition)
                                           THEN Len(objectives) ELSE 0]
               /\ UNCHANGED metPc
  /\ UNCHANGED <<cacheVars, capVars, tenVars>>

\* line 151
MetReturn ==
  /\ metPc = "loop"
  /\ metPc' = "returned"
  /\ UNCHANGED <<metrics, iter>>
  /\ UNCHANGED <<cacheVars, capVars, tenVars>>

MetNext ==
  \/ MetCall
  \/ \E pt \in Partitions, o \in VectorsOf(ObjValues) :
       \E l \in LossOutputs(pt, o) : MetIter(pt, o, l)
  \/ MetReturn

(***************************************************************************)
(* gather_incomplete_left (lines 160-161).  A tensor is its shape and its  *)
(* entries, indexed from 0.                                                 *)
(***************************************************************************)
RECURSIVE Indices(_)
Indices(shape) ==
  IF shape = <<>> THEN {<<>>}
  ELSE {<<i>> \o t : i \in 0..(shape[1] - 1), t \in Indices(Tail(shape))}

Tensor(shape, entries) == [shape |-> shape, at |-> entries]

Ndim(T) == Len(T.shape)

\* T[(...,) + (None,) * k]: k trailing axes of size 1
NewAxes(T, k) ==
  LET r == Ndim(T)
      at(ix) == T.at[SubSeq(ix, 1, r)]
  IN Tensor(T.shape \o [d \in 1..k |-> 1],
            [ix \in Indices(T.shape \o [d \in 1..k |-> 1]) |-> at(ix)])

\* T.expand(sizes): -1 keeps a dimension, a dimension of size 1 is repeated
Expand(T, sizes) ==
  LET shape == [d \in 1..Ndim(T) |-> IF sizes[d] = -1 THEN T.shape[d] ELSE sizes[d]]
      at(ix) == T.at[[d \in 1..Ndim(T) |-> IF T.shape[d] = 1 THEN 0 ELSE ix[d]]]
  IN Tensor(shape,
            [ix \in Indices(shape) |-> at(ix)])

\* T.gather(dim, index) is defined when index is no larger than T outside
\* dim and every index value is a position of T along dim
GatherOk(T, dim, idx) ==
  /\ \A d \in 1..Ndim(T) : d # dim + 1 => idx.shape[d] <= T.shape[d]
  /\ \A ix \in Indices(idx.shape) :
       idx.at[ix] >= 0 /\ idx.at[ix] < T.shape[dim + 1]

GatherFixed(T, dim, idx) ==
  LET at(ix) == T.at[[ix EXCEPT ![dim + 1] = 0]]
  IN Tensor(idx.shape,
            [ix \in Indices(idx.shape) |-> at(ix)])

\* T.gather(dim, index): out[ix] = T[ix with ix[dim] := index[ix]]
Gather(T, dim, idx) ==
  LET at(ix) == T.at[[ix EXCEPT ![dim + 1] = idx.at[ix]]]
  IN Tensor(idx.shape,
            [ix \in Indices(idx.shape) |-> at(ix)])

\* T.squeeze(dim): the dimension is dropped when its size is 1
Squeeze(T, dim) ==
  IF T.shape[dim + 1] # 1 THEN T
  ELSE LET drop(q) == SubSeq(q, 1, dim) \o SubSeq(q, dim + 2, Len(q))
           at(ix) == T.at[SubSeq(ix, 1, dim) \o <<0>> \o SubSeq(ix, dim + 1, Len(ix))]
       IN Tensor(drop(T.shape),
            [ix \in Indices(drop(T.shape)) |-> at(ix)])

\* line 161: the index tensor handed to gather
GatherIndex(T, J) ==
  Expand(NewAxes(J, Ndim(T) - Ndim(J)),
         [d \in 1..(Ndim(J) + 1) |-> -1] \o SubSeq(T.shape, Ndim(J) + 2, Ndim(T)))

\* line 161
gather_incomplete_left(T, J) ==
  Squeeze(Gather(T, Ndim(J), GatherIndex(T, J)), Ndim(J))

NoTensor == [shape |-> <<>>, at |-> [ix \in {<<>>} |-> 0]]
NotGathered == [status |-> "none", result |-> NoTensor]

TenIdle ==
  /\ tensor = NoTensor
  /\ I = NoTensor
  /\ gathered = NotGathered

\* a value tensor of shape (a,b,c) with pairwise distinct entries and an
\* index tensor of shape (a,)
TenInit ==
  /\ \E a, b, c \in 1..MaxDim, off \in {0, 1} :
       LET at(ix) == off + (ix[1] * b + ix[2]) * c + ix[3]
       IN /\ tensor = Tensor(<<a, b, c>>,
            [ix \in Indices(<<a, b, c>>) |-> at(ix)])
          /\ \E J \in [Indices(<<a>>) -> 0..(MaxDim - 1)] :
               I = [shape |-> <<a>>, at |-> J]
  /\ gathered = NotGathered

\* the call gather_incomplete_left(tensor, I); torch raises when gather is
\* handed an index out of range
GatherCall ==
  /\ gathered.status = "none"
  /\ IF GatherOk(tensor, Ndim(I), GatherIndex(tensor, I))
       THEN gathered' = [status |-> "ok",
                         result |-> gather_incomplete_left(tensor, I)]
       ELSE gathered' = [status |-> "raised", result |-> NoTensor]
  /\ UNCHANGED <<tensor, I>>
  /\ UNCHANGED <<cacheVars, capVars, metVars>>

TenNext == GatherCall

(***************************************************************************)
(* Specifications                                                           *)
(***************************************************************************)
\* init_if_not_saved, one caller after the other, any kwargs
InitCache == CacheInit /\ CapIdle /\ MetIdle /\ TenIdle

SpecCache == InitCache /\ [][CacheNext({1}, KwargsSet, MaxRows)]_vars

\* init_if_not_saved, concurrent callers sharing the working directory and
\* the folder
SpecLock == InitCache /\ [][CacheNext(Procs, LockKwargs, MaxLockRows)]_vars

\* Capturing and capture in one thread
InitCapture == CapInit /\ CacheInit /\ MetIdle /\ TenIdle

SpecCapture == InitCapture /\ [][CapNext]_vars

\* print_metrics
InitMetrics == MetIdle /\ CacheInit /\ CapIdle /\ TenIdle

SpecMetrics == InitMetrics /\ [][MetNext]_vars

\* gather_incomplete_left on a tensor of rank 3 and an index of rank 1
InitTensor == TenInit /\ CacheInit /\ CapIdle /\ MetIdle

SpecTensor == InitTensor /\ [][TenNext]_vars

(***************************************************************************)
(* Properties of the problem index and cache                               *)
(***************************************************************************)
\* the table a reader of the index file sees
Loaded(f) == IF f.exists THEN ReadCsv(f) ELSE [columns |-> {}, rows |-> <<>>]

\* the rows that equal kw on every kwargs key that is a column
Matches(df, kw) ==
  {i \in 1..Len(df.rows) :
     \A k \in KeysOf(kw) \cap df.columns : EqCell(df.rows[i].cells[k], kw[k])}

MinOf(S) == CHOOSE i \in S : \A j \in S : i <= j

\* the text a kwargs value is stored as
StoredAs(v) ==
  CASE v.ty = "num" -> NumLit(v.n)
    [] v.ty = "str" -> Text(v.s)
    [] OTHER        -> Empty

\* the call of p went through lines 72-85
Created(p) == kwargs[p].filename # NoFile

\* the call of p left the index file and the pickle files as it found them
LeftUnchanged(p) ==
  /\ ~Created(p)
  /\ saved_probs[p] = Loaded(index)
  /\ DOMAIN files = 0..(Len(index.rows) - 1)

\* C1: a call whose kwargs match no index row adds exactly one row (the
\* kwargs and the new filename) and exactly one pickle file, numbered by the
\* row count before the call, and rewrites every earlier row unchanged.
C1_MissCreatesOneRowOneFile ==
  [][\A p \in Procs :
       LET kw == kwargs[p].kw
           n  == Len(index.rows)
       IN (pc[p] \in {"branch", "dump", "write"}
             /\ Matches(Loaded(index), kw) = {}) =>
            /\ pc[p] = "branch" => pc'[p] \in {"branch", "dump", "raise"}
            /\ (pc[p] = "dump" /\ pc'[p] = "write") =>
                 /\ n \notin DOMAIN files
                 /\ DOMAIN files' = DOMAIN files \cup {n}
                 /\ \A m \in DOMAIN files : files'[m] = files[m]
                 /\ files'[n] = problem[p] /\ files'[n].args = kw
                 /\ index' = index
            /\ (pc[p] = "write" /\ pc'[p] = "unlock") =>
                 /\ index'.exists /\ Len(index'.rows) = n + 1
                 /\ index'.columns = index.columns \cup KeysOf(kw)
                 /\ index'.rows[n + 1].filename = n
                 /\ \A k \in Keys :
                      index'.rows[n + 1].cells[k] = StoredAs(kw[k])
                 /\ \A i \in 1..n : index'.rows[i] = index.rows[i]
                 /\ files' = files
                 /\ problem'[p].args = kw
  ]_vars

\* a miss on an index that already has rows has been written out
C1_Witness ==
  \E p \in Procs :
    /\ pc[p] = "unlock" /\ Created(p) /\ kwargs[p].filename >= 1
    /\ origin[kwargs[p].filename].found = NoFile

\* C2: once a call has created a row and file for kwargs not seen before, a
\* call with the same kwargs and load_new=False returns the instance of that
\* file and changes neither the index nor the files.
C2_HitReturnsSavedInstance ==
  \A p \in Procs :
    (pc[p] = "unlock" /\ ~load_new[p]) =>
       \A n \in DOMAIN files :
         ( /\ files[n].args = kwargs[p].kw /\ n # kwargs[p].filename
           /\ origin[n].found = NoFile ) =>
            problem[p] = files[n] /\ LeftUnchanged(p)

\* C3: a process is inside the lookup-or-create sequence only while it
\* holds the flock on .lock; no second process is inside with it, and the
\* index it has read is the index on disk until it writes its own.
InBody(p) == pc[p] \in {"find", "branch", "dump", "write"}

C3_MutualExclusion ==
  \A p \in Procs :
    InBody(p) =>
      /\ flockOwner = p
      /\ \A q \in Procs \ {p} : ~InBody(q)
      /\ pc[p] # "find" =>
           saved_probs[p] = FindSavedProblem(index, kwargs[p].kw)[2]

\* one process is about to write the index while another waits for the lock
C3_Witness ==
  \E p, q \in Procs : pc[p] = "write" /\ pc[q] = "flock" /\ index.exists

\* C4: in every index the program writes the filenames are pairwise
\* distinct, and every row once written stays, with the same values.
C4_FilenamesDistinctRowsKept ==
  [][ /\ \A i, j \in 1..Len(index'.rows) :
           i # j => index'.rows[i].filename # index'.rows[j].filename
      /\ \A i \in 1..Len(index.rows) :
           i <= Len(index'.rows) /\ index'.rows[i] = index.rows[i]
      /\ index.exists => index'.exists
  ]_vars

\* two rows of the same kwargs, written by two processes
C4_Witness ==
  /\ Len(index.rows) = 2
  /\ index.rows[1].cells = index.rows[2].cells
  /\ files[0].id # files[1].id
  /\ \E p, q \in Procs : p # q /\ pc[p] = "unlock" /\ pc[q] = "flock"

\* C5: when the body raises, the flock is dropped (by the close of .lock on
\* leaving the with block) in the step that hands the exception to the
\* caller, so that a caller blocked in flock is granted the lock.
C5_LockReleasedOnRaise ==
  [][\A p \in Procs :
       (pc[p] = "raise" /\ pc'[p] # "raise") =>
          /\ flockOwner = p
          /\ flockOwner' = NoProc
          /\ FlockGranted(flockOwner')
  ]_vars

\* the body has raised while another caller waits for the lock
C5_Witness ==
  \E p, q \in Procs : pc[p] = "raise" /\ pc[q] = "flock" /\ flockOwner = p

\* C6: find_saved_problem returns the filename of the first row, in index
\* order, that equals kwargs on every kwargs key that is a column, and None
\* exactly when there is no such row; keys that are no column are ignored.
C6_FindFirstMatch ==
  \A p \in Procs :
    pc[p] = "branch" =>
      LET df == saved_probs[p]
          M  == Matches(df, kwargs[p].kw)
      IN /\ df = (IF index.exists THEN ReadCsv(index)
                                  ELSE EmptyFrame(kwargs[p].kw))
         /\ filename[p] = (IF M = {} THEN NoFile
                                     ELSE df.rows[MinOf(M)].filename)

\* a later row is found, an earlier one is excluded, and a key is no column
C6_Witness ==
  \E p \in Procs :
    /\ pc[p] = "branch" /\ filename[p] >= 1
    /\ ~(KeysOf(kwargs[p].kw) \subseteq saved_probs[p].columns)
    /\ Len(saved_probs[p].rows) > filename[p] + 1

\* C10, first half: a call with load_new=True whose kwargs match a row
\* builds a new instance and appends a row of the same kwargs under a new
\* filename.
ForcedBuildAppends ==
  \A p \in Procs :
    (pc[p] = "unlock" /\ load_new[p]) =>
       LET n == kwargs[p].filename
       IN /\ Created(p) /\ n = Len(index.rows) - 1
          /\ index.rows[n + 1].filename = n
          /\ \A k \in Keys : index.rows[n + 1].cells[k] = StoredAs(kwargs[p].kw[k])
          /\ files[n] = problem[p]
          /\ \A m \in DOMAIN files \ {n} : files[m] # problem[p]

\* C10 as stated: a later call with the same kwargs and load_new=False
\* returns the instance of the row that matched when the second row was
\* built, never the newly built one.
C10_Original ==
  /\ ForcedBuildAppends
  /\ \A p \in Procs :
       (pc[p] = "unlock" /\ ~load_new[p]) =>
          \A n \in DOMAIN files :
            ( /\ files[n].args = kwargs[p].kw /\ n # kwargs[p].filename
              /\ origin[n].found # NoFile ) =>
               problem[p] = files[origin[n].found] /\ problem[p] # files[n]

\* C10 amended: when every kwargs key was a column already when the second
\* row was built, a later call with the same kwargs and load_new=False never
\* returns the newly built instance: where its lookup finds a row it returns
\* the instance of the row that matched when the second row was built, and
\* where it finds none it builds anew.
C10_ForcedBuildKeepsOldest ==
  /\ ForcedBuildAppends
  /\ \A p \in Procs :
       (pc[p] = "unlock" /\ ~load_new[p]) =>
          \A n \in DOMAIN files :
            ( /\ files[n].args = kwargs[p].kw /\ n # kwargs[p].filename
              /\ origin[n].found # NoFile
              /\ ~origin[n].widened ) =>
               /\ problem[p] # files[n]
               /\ ~Created(p) => problem[p] = files[origin[n].found]

\* after a forced second build the older row's instance has been returned
C10_Witness ==
  \E p \in Procs :
    /\ pc[p] = "unlock" /\ ~load_new[p] /\ ~Created(p)
    /\ \E n \in DOMAIN files :
         /\ files[n].args = kwargs[p].kw
         /\ origin[n].found # NoFile /\ ~origin[n].widened
         /\ problem[p] = files[origin[n].found]
         /\ problem[p].args = kwargs[p].kw
         /\ KeysOf(kwargs[p].kw) # {}

(***************************************************************************)
(* Properties of Capturing, print_metrics and gather_incomplete_left       *)
(***************************************************************************)
\* C7: whenever a Capturing scope is left, by return or by an exception,
\* sys.stdout is again the stream that was installed when the scope was
\* entered and the lines written in the scope are appended, in order, to
\* the Capturing list; while a scope is open nothing is written to the
\* stream that was installed when it was entered.
C7_StdoutRestoredLinesCaptured ==
  [][ /\ (Len(scopes') < Len(scopes)) =>
           LET c == scopes[Len(scopes)]
           IN /\ sys_stdout' = c.installed
              /\ output' = c.list \o c.written
      /\ \A i \in 1..Len(scopes) :
           streams'[scopes[i].installed] = streams[scopes[i].installed]
  ]_vars

\* an exception has left every scope, with two lines captured
C7_Witness ==
  /\ exc /\ scopes = <<>> /\ entered > 0
  /\ sys_stdout = 0 /\ Len(output) >= 2

\* C8 as stated: for a value tensor of shape (a,b,c) and an index of shape
\* (a,) with values in [0,c) the result has shape (a,b) and
\* result[i,j] = value[i,j,index[i]].
C8_Original ==
  LET a == tensor.shape[1]
      b == tensor.shape[2]
      c == tensor.shape[3]
  IN (gathered.status # "none" /\ \A i \in 0..(a - 1) : I.at[<<i>>] < c) =>
       /\ gathered.status = "ok"
       /\ gathered.result.shape = <<a, b>>
       /\ \A i \in 0..(a - 1), j \in 0..(b - 1) :
            gathered.result.at[<<i, j>>] = tensor.at[<<i, j, I.at[<<i>>]>>]

\* C8 amended: the call succeeds exactly for index values in [0,b); the
\* result then has shape (a,c) and result[i,k] = value[i,index[i],k].
C8_GatherSelectsSecondAxis ==
  LET a == tensor.shape[1]
      b == tensor.shape[2]
      c == tensor.shape[3]
  IN gathered.status # "none" =>
       /\ gathered.status = "ok" <=> \A i \in 0..(a - 1) : I.at[<<i>>] < b
       /\ gathered.status = "ok" =>
            /\ gathered.result.shape = <<a, c>>
            /\ \A i \in 0..(a - 1), k \in 0..(c - 1) :
                 gathered.result.at[<<i, k>>] = tensor.at[<<i, I.at[<<i>>], k>>]

\* a gather with b # c and two different index values
C8_Witness ==
  /\ gathered.status = "ok"
  /\ tensor.shape[1] >= 2 /\ tensor.shape[2] # tensor.shape[3]
  /\ I.at[<<0>>] # I.at[<<1>>]

IsZero(m) == ~m.nan /\ m.num = 0
MeanEq(m1, m2) == ~m1.nan /\ ~m2.nan /\ m1.num * m2.den = m2.num * m1.den

\* C9 as stated: on a partition named test print_metrics reports loss == 0
\* and mae == mean(objective) for every objective vector, and never calls
\* loss_fn.
C9_Original ==
  /\ metrics["test"].set =>
       /\ IsZero(metrics["test"].loss)
       /\ MeanEq(metrics["test"].mae, metrics["test"].objective)
  /\ iter.partition = "test" => iter.lossCalls = 0

\* C9 amended: on a partition named test with a non-empty objective vector
\* print_metrics reports loss == 0 and mae == mean(|objective|), which is
\* mean(objective) exactly when no objective is negative; with an empty
\* vector loss and mae are nan; loss_fn is never called.
C9_TestMetrics ==
  iter.partition = "test" =>
    LET m == metrics["test"]
        o == iter.objectives
    IN /\ m.set /\ iter.lossCalls = 0
       /\ o # <<>> =>
            /\ IsZero(m.loss)
            /\ ~m.mae.nan /\ m.mae.den = Len(o)
            /\ m.mae.num = SumSeq([i \in 1..Len(o) |-> Abs(o[i])])
            /\ ~m.objective.nan /\ m.objective.den = Len(o)
            /\ m.objective.num = SumSeq(o)
            /\ MeanEq(m.mae, m.objective) <=> \A i \in 1..Len(o) : o[i] >= 0
       /\ o = <<>> => m.loss.nan /\ m.mae.nan

\* a test partition with a negative objective, after a train partition
C9_Witness ==
  /\ iter.partition = "test" /\ Len(iter.objectives) >= 2
  /\ \E i \in 1..Len(iter.objectives) : iter.objectives[i] < 0
  /\ metrics["train"].set /\ ~IsZero(metrics["train"].loss)

====
